---- MODULE Spec2Model ----
(***************************************************************************)
(* Verification model of the leaf-classification inference pipeline:       *)
(*   app/model_loader.py  the model registry (module-level code), the      *)
(*                        ensemble predictor predict_image and the         *)
(*                        preprocessor preprocess_image_if_available;      *)
(*   app/app.py           the request handlers upload and predict_base64,  *)
(*                        which save the image, preprocess it and predict. *)
(* The database look-ups that follow a successful prediction in the        *)
(* handlers are outside the pipeline and are not modelled.                 *)
(***************************************************************************)
EXTENDS Integers, Sequences, FiniteSets, TLC

(***************************************************************************)
(* Bounds of the model.                                                    *)
(***************************************************************************)
\* The wall clock runs over the seconds 0..MaxClock.
MaxClock == 1
\* Length of the probability vector a classifier outputs.
NumClasses == 2
\* Probabilities are multiples of 1/Scale: the integer p stands for p/Scale.
Scale == 10

\* Request-handling threads of the server.
Workers == {"w1", "w2"}
\* The thread that serves requests when they are handled one at a time.
SerialWorkers == {"w1"}

(***************************************************************************)
(* Inputs of the requests.                                                 *)
(***************************************************************************)
Users == {"amy"}
\* Images a client can send: a leaf photograph, an all-black picture (no
\* contrast, so no contour) and bytes that are no image at all.
Leaves == {"leafA", "black"}
RawImages == Leaves \cup {"junk"}
\* file.filename values of an upload.
FileNames == {"my leaf.jpg", "notes.txt", ""}

(***************************************************************************)
(* Model registry: model_loader.py, module level.                          *)
(***************************************************************************)
EFF_MODEL == "efficientnet_b0_model.h5"
RES_MODEL == "resnet50_model.h5"
\* The tuple iterated by "for p in (EFF_MODEL, RES_MODEL)".
Candidates == <<EFF_MODEL, RES_MODEL>>

\* What the models directory holds at a candidate location: nothing, a file
\* load_model rejects, a model that evaluates, or a model that loads but
\* raises whenever it is evaluated (e.g. it expects another input shape).
ArtifactStates == {"absent", "corrupt", "ok", "illfit"}

\* load_model(p) on a loadable artifact.
Handle(p, a) == [path |-> p, fit |-> (a = "ok")]

\* The loop of lines 16-22 when a load failure escapes the try block: the
\* module import aborts at the first artifact that fails to load.
RECURSIVE LoadLoopUncaught(_, _, _)
LoadLoopUncaught(cands, art, acc) ==
    IF cands = <<>> THEN [up |-> TRUE, models |-> acc]
    ELSE LET p == Head(cands) IN
         IF art[p] = "absent" THEN LoadLoopUncaught(Tail(cands), art, acc)
         ELSE IF art[p] = "corrupt" THEN [up |-> FALSE, models |-> acc]
         ELSE LoadLoopUncaught(Tail(cands), art, Append(acc, Handle(p, art[p])))

\* for p in (EFF_MODEL, RES_MODEL): if os.path.exists(p): try: append(load_model(p))
\* except Exception: print.  "up" tells whether the import ran to its end.
RECURSIVE LoadLoop(_, _, _)
LoadLoop(cands, art, acc) ==
    IF cands = <<>> THEN [up |-> TRUE, models |-> acc]
    ELSE LET p == Head(cands) IN
         IF art[p] = "absent" THEN LoadLoop(Tail(cands), art, acc)
         ELSE IF art[p] = "corrupt" THEN LoadLoop(Tail(cands), art, acc)
         ELSE LoadLoop(Tail(cands), art, Append(acc, Handle(p, art[p])))

(***************************************************************************)
(* The label index file class_indices.json and what json.load makes of it. *)
(* A JSON value is [t, v]: an object is a sequence of <<key, value>> items *)
(* in file order, a list a sequence of values.                             *)
(***************************************************************************)
JInt(n) == [t |-> "int", v |-> n]
JStr(s) == [t |-> "str", v |-> s]
JList(s) == [t |-> "list", v |-> s]
JDict(items) == [t |-> "dict", v |-> items]

\* Species names of the reference table (database/db_setup.py, samples).
ClassNames == <<"Neem", "Tulsi", "AloeVera", "Brahmi">>

\* {"Neem": 0, "Tulsi": 1, ...}: one entry per class index.
WellFormedJson == JDict([i \in 1..NumClasses |-> <<ClassNames[i], JInt(i - 1)>>])
\* {"Neem": 0}: a well-formed object that lacks the other indices.
PartialJson == JDict(<<<<ClassNames[1], JInt(0)>>>>)
\* {"Neem": 0, "Tulsi": "one"}: a value int() rejects.
NonIntJson == JDict(<<<<ClassNames[1], JInt(0)>>, <<ClassNames[2], JStr("one")>>>>)
\* {"Neem": "0", "Tulsi": "1"}: numerals int() accepts.
NumeralJson == JDict(<<<<ClassNames[1], JStr("0")>>, <<ClassNames[2], JStr("1")>>>>)
\* {"Neem": [0]}: a value that is a list.
ListValueJson == JDict(<<<<ClassNames[1], JList(<<JInt(0)>>)>>>>)
\* ["Neem", "Tulsi"]: the top level is no object.
TopListJson == JList(<<JStr(ClassNames[1]), JStr(ClassNames[2])>>)

ClassMapFiles ==
    { [exists |-> FALSE, parses |-> FALSE, json |-> JDict(<<>>)],
      [exists |-> TRUE, parses |-> FALSE, json |-> JDict(<<>>)] }
    \cup { [exists |-> TRUE, parses |-> TRUE, json |-> j] :
             j \in {WellFormedJson, PartialJson, NonIntJson, NumeralJson,
                    ListValueJson, TopListJson} }

\* The decimal numerals int() parses among the strings of the files above.
Numerals == <<"0", "1", "2", "3", "4", "5", "6", "7", "8", "9">>
IsNumeral(s) == \E i \in 1..Len(Numerals) : Numerals[i] = s
NumeralValue(s) == (CHOOSE i \in 1..Len(Numerals) : Numerals[i] = s) - 1

\* int(v) raises for a list and for a string that is no numeral.
IntRaises(j) == j.t = "list" \/ j.t = "dict" \/ (j.t = "str" /\ ~IsNumeral(j.v))
\* int(v)
IntOf(j) == IF j.t = "int" THEN j.v ELSE NumeralValue(j.v)

\* Lines 25-34.  CLASS_MAP = {} ; if the file exists: CLASS_MAP = json.load(f)
\* and then CLASS_MAP = {k: int(v) ...}, all inside one try.  json.load
\* raising leaves {} ; .items() or int() raising leaves the value json.load
\* returned, which line 30 had already bound to CLASS_MAP.
LoadClassMap(f) ==
    IF ~f.exists \/ ~f.parses THEN JDict(<<>>)
    ELSE IF f.json.t # "dict" THEN f.json
    ELSE IF \E i \in 1..Len(f.json.v) : IntRaises(f.json.v[i][2]) THEN f.json
    ELSE JDict([i \in 1..Len(f.json.v) |->
                  <<f.json.v[i][1], JInt(IntOf(f.json.v[i][2]))>>])

(***************************************************************************)
(* Stored images.  A file's content is [src, bg, size]: the picture it     *)
(* came from, whether the background is still in it, and its geometry      *)
(* ("orig" as sent, "224" after the contour crop, "zero" once the file has *)
(* been truncated).                                                        *)
(***************************************************************************)
NoFile == [src |-> "none", bg |-> FALSE, size |-> "zero"]
\* The bytes file.save / img.save store for a picture.
Raw(img) == [src |-> img, bg |-> TRUE, size |-> "orig"]
\* rembg.remove(input_bytes): the same picture without its background.
Rembg(c) == [c EXCEPT !.bg = FALSE]
\* img[y:y+h, x:x+w] resized to (224,224).
Crop224(c) == [c EXCEPT !.size = "224"]
\* open(img_path, "wb") empties the file before anything is written.
Truncated(c) == [c EXCEPT !.size = "zero"]
\* Whether PIL / cv2.imread can decode the content.
Decodable(c) == c.src \in Leaves /\ c.size # "zero"
\* Whether cv2.findContours finds a contour after the Otsu threshold.
HasContours(c) == Decodable(c) /\ c.src # "black"

\* The file stored under path p, NoFile when there is none.
ReadFile(fs, p) == IF p \in DOMAIN fs THEN fs[p] ELSE NoFile
\* The store after content c has been written under path p.
WriteFile(fs, p, c) == [q \in DOMAIN fs \cup {p} |-> IF q = p THEN c ELSE fs[q]]

(***************************************************************************)
(* Ensemble predictor: predict_image.                                      *)
(***************************************************************************)
NoError == [type |-> "", msg |-> ""]
\* raise RuntimeError(...) of line 43.
NoModelsError ==
    [type |-> "RuntimeError",
     msg |-> "No models loaded in 'models/' directory. Add your .h5 files."]
\* raise RuntimeError(...) of line 57.
NoPredictionsError ==
    [type |-> "RuntimeError", msg |-> "No predictions produced by models."]
\* image.load_img on a file that is no image.
ImageLoadError ==
    [type |-> "UnidentifiedImageError", msg |-> "cannot identify image file"]
\* CLASS_MAP.items() on a list.
ItemsError ==
    [type |-> "AttributeError", msg |-> "'list' object has no attribute 'items'"]
\* {v: k ...} with a list as key.
UnhashableError == [type |-> "TypeError", msg |-> "unhashable type: 'list'"]

\* load_img(target_size=(224,224)), img_to_array / 255, expand_dims: one
\* 224x224 sample, whatever the stored geometry was.
LoadImg(c) == [src |-> c.src, bg |-> c.bg, size |-> "224"]

\* A probability vector with a at (1-based) position i and the rest at j.
TwoPeak(i, a, j) ==
    [k \in 1..NumClasses |-> IF k = i THEN a ELSE IF k = j THEN Scale - a ELSE 0]

\* m.predict(x)[0] of a model that evaluates: each network is a fixed
\* function of the sample.  EfficientNet: leafA -> [0.9, 0.1], black ->
\* [0.5, 0.5].  ResNet: leafA -> [0.3, 0.7] with its background and
\* [0.7, 0.3] without, black -> [0.1, .., 0.9] (the last class).
Softmax(p, x) ==
    IF p = EFF_MODEL
    THEN IF x.src = "leafA" THEN TwoPeak(1, Scale - 1, 2)
         ELSE TwoPeak(1, Scale \div 2, 2)
    ELSE IF x.src = "leafA"
         THEN IF x.bg THEN TwoPeak(1, 3, 2) ELSE TwoPeak(1, Scale - 3, 2)
         ELSE TwoPeak(NumClasses, Scale - 1, 1)

\* Lines 49-55: for m in _models: try: preds.append(m.predict(x)[0]) except:
\* print.  attempted lists the models evaluated, in order.
RECURSIVE RunModels(_, _, _)
RunModels(ms, x, acc) ==
    IF ms = <<>> THEN acc
    ELSE LET m == Head(ms) IN
         RunModels(Tail(ms), x,
                   [attempted |-> Append(acc.attempted, m.path),
                    preds |-> IF m.fit THEN Append(acc.preds, Softmax(m.path, x))
                              ELSE acc.preds])

\* Sum over the vectors of their k-th elements.
RECURSIVE SumAt(_, _)
SumAt(preds, k) ==
    IF preds = <<>> THEN 0 ELSE Head(preds)[k] + SumAt(Tail(preds), k)

\* np.mean(preds, axis=0): element k is SumAt(preds, k) / Len(preds).  The
\* vector is kept as its numerators num over the common denominator den, in
\* units of 1/Scale: element k is num[k] / den.
Mean(preds) ==
    [num |-> [k \in 1..Len(preds[1]) |-> SumAt(preds, k)],
     den |-> Len(preds) * Scale]

\* The scan of np.argmax taking the later of two equal elements.
RECURSIVE ArgMaxLastFrom(_, _, _)
ArgMaxLastFrom(v, i, best) ==
    IF i > Len(v) THEN best
    ELSE ArgMaxLastFrom(v, i + 1, IF v[i] >= v[best] THEN i ELSE best)

\* The scan of np.argmax: the first position of the largest element.
RECURSIVE ArgMaxFrom(_, _, _)
ArgMaxFrom(v, i, best) ==
    IF i > Len(v) THEN best
    ELSE ArgMaxFrom(v, i + 1, IF v[i] > v[best] THEN i ELSE best)

\* np.argmax(avg) with ties to the last index.
ArgMaxLast(v) == ArgMaxLastFrom(v, 2, 1) - 1

\* int(np.argmax(avg)): a 0-based index.
ArgMax(v) == ArgMaxFrom(v, 2, 1) - 1

\* np.max(avg)
RECURSIVE MaxFrom(_, _, _)
MaxFrom(v, i, best) ==
    IF i > Len(v) THEN best
    ELSE MaxFrom(v, i + 1, IF v[i] > best THEN v[i] ELSE best)
MaxOf(v) == MaxFrom(v, 2, v[1])

\* Lines 59-61: avg, idx, confidence.  confidence is <<numerator, denominator>>.
Ensemble(preds) ==
    LET avg == Mean(preds) IN
    [done |-> FALSE, avg |-> avg, idx |-> ArgMax(avg.num),
     confidence |-> <<MaxOf(avg.num), avg.den>>]

\* str(idx)
Str(idx) == Numerals[idx + 1]

\* Python truth value of a dict or a list.
Truthy(j) == Len(j.v) > 0

\* Lines 64-68.  if CLASS_MAP: inv = {v: k for k, v in CLASS_MAP.items()};
\* label = inv.get(idx, str(idx)) else label = str(idx).  A later item with the
\* same value replaces an earlier one in inv; only an int value equals idx.
ResolveLabel(cm, idx) ==
    IF ~Truthy(cm) THEN [exc |-> NoError, label |-> Str(idx)]
    ELSE IF cm.t # "dict" THEN [exc |-> ItemsError, label |-> ""]
    ELSE IF \E i \in 1..Len(cm.v) : cm.v[i][2].t \in {"list", "dict"}
         THEN [exc |-> UnhashableError, label |-> ""]
    ELSE LET hits == {i \in 1..Len(cm.v) : cm.v[i][2].t = "int" /\ cm.v[i][2].v = idx}
         IN  [exc |-> NoError,
              label |-> IF hits = {} THEN Str(idx)
                        ELSE cm.v[CHOOSE i \in hits : \A j \in hits : j <= i][1]]

NoRun == [attempted |-> <<>>, preds |-> <<>>]
\* What one call of predict_image did: the exception it raised (NoError when
\* it returned), whether load_img read the file, the models evaluated, the
\* vectors collected, and the (label, confidence) returned.
Raised(e, loaded, run) ==
    [exc |-> e, loaded |-> loaded, attempted |-> run.attempted, preds |-> run.preds,
     idx |-> 0, label |-> "", confidence |-> <<0, 1>>]
Returned(run, idx, label, conf) ==
    [exc |-> NoError, loaded |-> TRUE, attempted |-> run.attempted, preds |-> run.preds,
     idx |-> idx, label |-> label, confidence |-> conf]

\* predict_image from line 45 on.
PredictLoaded(models, cm, c) ==
    IF ~Decodable(c) THEN Raised(ImageLoadError, FALSE, NoRun)
    ELSE LET run == RunModels(models, LoadImg(c), NoRun) IN
         IF run.preds = <<>> THEN Raised(NoPredictionsError, TRUE, run)
         ELSE LET e == Ensemble(run.preds)
                  r == ResolveLabel(cm, e.idx)
              IN  IF r.exc # NoError THEN Raised(r.exc, TRUE, run)
                  ELSE Returned(run, e.idx, r.label, e.confidence)

\* predict_image without the guard of lines 42-43.
PredictImageUnguarded(models, cm, c) == PredictLoaded(models, cm, c)

\* predict_image(img_path), c being the content of the file at img_path.
PredictImage(models, cm, c) ==
    IF models = <<>> THEN Raised(NoModelsError, FALSE, NoRun)
    ELSE PredictLoaded(models, cm, c)

(***************************************************************************)
(* Request handlers: app.py.                                               *)
(***************************************************************************)
ALLOWED_EXT == {".jpg", ".jpeg", ".png", ".bmp"}
\* Path(filename).suffix.lower()
Suffix(filename) ==
    CASE filename = "my leaf.jpg" -> ".jpg"
      [] filename = "notes.txt" -> ".txt"
      [] OTHER -> ""
\* allowed_file(filename)
allowed_file(filename) == Suffix(filename) \in ALLOWED_EXT
\* werkzeug's secure_filename: blanks become underscores.
secure_filename(filename) ==
    CASE filename = "my leaf.jpg" -> "my_leaf.jpg"
      [] OTHER -> filename

\* f"{current_user.username}_{timestamp}_{filename}" under UPLOAD_FOLDER; the
\* timestamp has the resolution of one second.
UploadPath(user, now, filename) == <<user, "_", now, "_", filename>>
\* f"{current_user.username}_cam_{timestamp}.jpg" under UPLOAD_FOLDER.
CamPath(user, now) == <<user, "_cam_", now, ".jpg">>

NoResponse == [status |-> 0, error |-> <<>>, label |-> "", confidence |-> <<0, 1>>]
\* jsonify({"error": ...}), 400
BadRequest(msg) == [status |-> 400, error |-> msg, label |-> "", confidence |-> <<0, 1>>]
\* The except branch of the prediction answering without the exception's text.
ErrorResponseOpaque(e) ==
    [status |-> 500, error |-> <<"Prediction error">>, label |-> "",
     confidence |-> <<0, 1>>]
\* jsonify({"error": f"Prediction error: {e}"}), 500
ErrorResponse(e) ==
    [status |-> 500, error |-> <<"Prediction error: ", e.msg>>, label |-> "",
     confidence |-> <<0, 1>>]
\* jsonify({"label": label, "confidence": float(confidence), "info": ...})
OkResponse(label, confidence) ==
    [status |-> 200, error |-> <<>>, label |-> label, confidence |-> confidence]

NoResult == Raised(NoError, FALSE, NoRun)

\* A handler thread between two requests.
Idle ==
    [pc |-> "idle", kind |-> "", user |-> "", img |-> "none", save_path |-> <<>>,
     primary |-> "none", fallback |-> "none",
     output |-> NoFile, crop |-> NoFile, pre |-> "none", calls |-> 0,
     read |-> NoFile, result |-> NoResult, response |-> NoResponse]

NoEnsemble ==
    [done |-> FALSE, avg |-> [num |-> <<>>, den |-> 1], idx |-> 0,
     confidence |-> <<0, 1>>]

VARIABLES
    artifacts,       \* the models directory: candidate path -> ArtifactStates
    class_map_file,  \* the models directory: class_indices.json
    up,              \* whether the import of model_loader ran to its end
    _models,         \* model_loader._models
    CLASS_MAP,       \* model_loader.CLASS_MAP
    clock,           \* datetime.utcnow(), in seconds
    uploads,         \* UPLOAD_FOLDER: the files handlers in flight have saved
    th,              \* the handler threads: position and local variables
    preds,           \* vectors handed to the ensemble when it is run alone
    ensemble         \* what the ensemble made of preds

vars == <<artifacts, class_map_file, up, _models, CLASS_MAP, clock, uploads, th,
          preds, ensemble>>

registry == <<artifacts, class_map_file, up, _models, CLASS_MAP>>

\* The module-level loop of lines 15-22.
LoadModelsUncaught(art) == LoadLoopUncaught(Candidates, art, <<>>)
LoadModels(art) == LoadLoop(Candidates, art, <<>>)

\* The process after "from model_loader import ...": every content of the
\* models directory, no request in flight.
Init ==
    /\ artifacts \in [{EFF_MODEL, RES_MODEL} -> ArtifactStates]
    /\ class_map_file \in ClassMapFiles
    /\ up = LoadModels(artifacts).up
    /\ _models = LoadModels(artifacts).models
    /\ CLASS_MAP = LoadClassMap(class_map_file)
    /\ clock = 0
    /\ uploads = [q \in {} |-> NoFile]
    /\ th = [w \in Workers |-> Idle]
    /\ preds = <<>>
    /\ ensemble = NoEnsemble

\* A second passes.
Tick ==
    /\ clock < MaxClock
    /\ clock' = clock + 1
    /\ UNCHANGED <<registry, uploads, th, preds, ensemble>>

\* The handler saved the image under path and goes on to preprocess it.
Saved(w, kind, user, img, path) ==
    /\ uploads' = WriteFile(uploads, path, Raw(img))
    /\ th' = [th EXCEPT ![w] = [Idle EXCEPT !.pc = "preprocess", !.kind = kind,
                                            !.user = user, !.img = img,
                                            !.save_path = path]]

\* The handler answers 400 without saving anything.
Rejected(w, kind, user, msg) ==
    /\ uploads' = uploads
    /\ th' = [th EXCEPT ![w] = [Idle EXCEPT !.pc = "done", !.kind = kind,
                                            !.user = user,
                                            !.response = BadRequest(msg)]]

\* upload(), lines 143-155.
Upload(w) ==
    /\ up /\ th[w].pc = "idle"
    /\ \E user \in Users, hasFile \in BOOLEAN, filename \in FileNames, img \in RawImages :
          IF ~hasFile THEN Rejected(w, "upload", user, <<"No file part">>)
          ELSE IF filename = "" THEN Rejected(w, "upload", user, <<"No selected file">>)
          ELSE IF ~allowed_file(filename)
               THEN Rejected(w, "upload", user, <<"Invalid file type">>)
          ELSE Saved(w, "upload", user, img,
                     UploadPath(user, clock, secure_filename(filename)))
    /\ UNCHANGED <<registry, clock, preds, ensemble>>

\* predict_base64(), lines 205-220.  Only bytes PIL decodes are saved.
PredictBase64(w) ==
    /\ up /\ th[w].pc = "idle"
    /\ \E user \in Users, hasImage \in BOOLEAN, img \in RawImages :
          IF ~hasImage THEN Rejected(w, "cam", user, <<"No image provided">>)
          ELSE IF ~Decodable(Raw(img))
               THEN Rejected(w, "cam", user,
                             <<"Invalid image data: ", ImageLoadError.msg>>)
          ELSE Saved(w, "cam", user, img, CamPath(user, clock))
    /\ UNCHANGED <<registry, clock, preds, ensemble>>

(***************************************************************************)
(* Preprocessor: preprocess_image_if_available, called at app.py 159/224.  *)
(***************************************************************************)
\* Lines 79-82: import rembg, read the file, remove the background.
PrimaryRead(w) ==
    /\ th[w].pc = "preprocess"
    /\ LET c == ReadFile(uploads, th[w].save_path) IN
          \/ \* rembg is not installed: the import raises
             th' = [th EXCEPT ![w].primary = "absent",
                              ![w].pc = "fallback"]
          \/ \* open, read or remove raises
             th' = [th EXCEPT ![w].primary = "raised",
                              ![w].pc = "fallback"]
          \/ /\ Decodable(c)
             /\ th' = [th EXCEPT ![w].output = Rembg(c),
                                 ![w].pc = "primary_write"]
    /\ UNCHANGED <<registry, clock, uploads, preds, ensemble>>

\* Lines 83-85 without the return of line 85: after a successful write the
\* function goes on to the contour crop.
PrimaryWrittenNoReturn(w) ==
    /\ uploads' = WriteFile(uploads, th[w].save_path, th[w].output)
    /\ th' = [th EXCEPT ![w].primary = "ok", ![w].output = NoFile,
                        ![w].pc = "fallback"]

\* Lines 83-85 when the write succeeds: the file holds output, return True.
PrimaryWritten(w) ==
    /\ uploads' = WriteFile(uploads, th[w].save_path, th[w].output)
    /\ th' = [th EXCEPT ![w].primary = "ok", ![w].output = NoFile,
                        ![w].pre = "true", ![w].pc = "predict"]

\* Lines 83-85: with open(img_path, "wb") as o: o.write(output); return True.
PrimaryWrite(w) ==
    /\ th[w].pc = "primary_write"
    /\ \/ \* open raises: the file is as it was
          /\ uploads' = uploads
          /\ th' = [th EXCEPT ![w].primary = "raised", ![w].output = NoFile,
                              ![w].pc = "fallback"]
       \/ \* the write raises after open has emptied the file
          /\ uploads' = WriteFile(uploads, th[w].save_path,
                                  Truncated(ReadFile(uploads, th[w].save_path)))
          /\ th' = [th EXCEPT ![w].primary = "torn", ![w].output = NoFile,
                              ![w].pc = "fallback"]
       \/ PrimaryWritten(w)
    /\ UNCHANGED <<registry, clock, preds, ensemble>>

\* Lines 89-103: import cv2, imread, threshold, contours, crop, resize.
FallbackRead(w) ==
    /\ th[w].pc = "fallback"
    /\ LET c == ReadFile(uploads, th[w].save_path) IN
          \/ \* cv2 is missing or a step raises: return False
             th' = [th EXCEPT ![w].fallback = "raised", ![w].pre = "false",
                              ![w].pc = "predict"]
          \/ \* img is None: return False
             /\ ~Decodable(c)
             /\ th' = [th EXCEPT ![w].fallback = "unreadable", ![w].pre = "false",
                                 ![w].pc = "predict"]
          \/ \* not contours: return False
             /\ Decodable(c) /\ ~HasContours(c)
             /\ th' = [th EXCEPT ![w].fallback = "nocontours", ![w].pre = "false",
                                 ![w].pc = "predict"]
          \/ /\ HasContours(c)
             /\ th' = [th EXCEPT ![w].crop = Crop224(c), ![w].pc = "fallback_write"]
    /\ UNCHANGED <<registry, clock, uploads, preds, ensemble>>

\* Lines 104-105: cv2.imwrite(img_path, crop); return True.
FallbackWrite(w) ==
    /\ th[w].pc = "fallback_write"
    /\ uploads' = WriteFile(uploads, th[w].save_path, th[w].crop)
    /\ th' = [th EXCEPT ![w].fallback = "ok", ![w].crop = NoFile,
                        ![w].pre = "true", ![w].pc = "predict"]
    /\ UNCHANGED <<registry, clock, preds, ensemble>>

\* app.py 165-199 / 228-254: predict_image(str(save_path)) and the answer.
Predict(w) ==
    /\ th[w].pc = "predict"
    /\ LET c == ReadFile(uploads, th[w].save_path)
           r == PredictImage(_models, CLASS_MAP, c)
       IN  th' = [th EXCEPT ![w].calls = @ + 1,
                            ![w].read = IF r.loaded THEN c ELSE NoFile,
                            ![w].result = r,
                            ![w].response = IF r.exc = NoError
                                            THEN OkResponse(r.label, r.confidence)
                                            ELSE ErrorResponse(r.exc),
                            ![w].pc = "done"]
    /\ UNCHANGED <<registry, clock, uploads, preds, ensemble>>

\* The answer has been sent and the thread takes the next request.  Its file
\* stays in UPLOAD_FOLDER, but no handler opens a file it has not first
\* overwritten with its own image, so the file leaves the model's view as
\* soon as no handler in flight uses its path.
Finish(w) ==
    /\ th[w].pc = "done"
    /\ th' = [th EXCEPT ![w] = Idle]
    /\ uploads' = [q \in {p \in DOMAIN uploads :
                            \E v \in Workers \ {w} : th[v].save_path = p}
                     |-> uploads[q]]
    /\ UNCHANGED <<registry, clock, preds, ensemble>>

Step(w) ==
    \/ Upload(w)
    \/ PredictBase64(w)
    \/ PrimaryRead(w)
    \/ PrimaryWrite(w)
    \/ FallbackRead(w)
    \/ FallbackWrite(w)
    \/ Predict(w)
    \/ Finish(w)

\* One thread: requests are served one after the other.
Next == Tick \/ \E w \in SerialWorkers : Step(w)

Spec == Init /\ [][Next]_vars

\* Several threads (the development server the module starts is threaded):
\* the steps of the handlers interleave.  The requests all arrive within
\* one second of the clock, both models are loaded and the label index is
\* well formed.
ThreadedInit ==
    /\ Init
    /\ artifacts = [p \in {EFF_MODEL, RES_MODEL} |-> "ok"]
    /\ class_map_file = [exists |-> TRUE, parses |-> TRUE, json |-> WellFormedJson]

ThreadedNext == \E w \in Workers : Step(w)

SpecThreaded == ThreadedInit /\ [][ThreadedNext]_vars

(***************************************************************************)
(* The ensemble of lines 59-61 on its own, over every list of one to       *)
(* Len(Candidates) probability vectors of the grid.                        *)
(***************************************************************************)
RECURSIVE SumSeq(_)
SumSeq(v) == IF v = <<>> THEN 0 ELSE Head(v) + SumSeq(Tail(v))

\* The categorical distributions over NumClasses classes, in units of 1/Scale.
ProbVectors == {v \in [1..NumClasses -> 0..Scale] : SumSeq(v) = Scale}

EnsembleInit ==
    /\ artifacts = [p \in {EFF_MODEL, RES_MODEL} |-> "absent"]
    /\ class_map_file = [exists |-> FALSE, parses |-> FALSE, json |-> JDict(<<>>)]
    /\ up = LoadModels(artifacts).up
    /\ _models = LoadModels(artifacts).models
    /\ CLASS_MAP = LoadClassMap(class_map_file)
    /\ clock = 0
    /\ uploads = [q \in {} |-> NoFile]
    /\ th = [w \in Workers |-> Idle]
    /\ preds \in UNION {[1..n -> ProbVectors] : n \in 1..Len(Candidates)}
    /\ ensemble = NoEnsemble

\* avg = np.mean(preds, axis=0); idx = int(np.argmax(avg)); confidence = float(np.max(avg))
Combine ==
    /\ ~ensemble.done
    /\ ensemble' = [Ensemble(preds) EXCEPT !.done = TRUE]
    /\ UNCHANGED <<registry, clock, uploads, th, preds>>

EnsembleNext == Combine

SpecEnsemble == EnsembleInit /\ [][EnsembleNext]_vars

(***************************************************************************)
(* Properties.                                                             *)
(***************************************************************************)
\* A handler that has called predict_image and answered.
Answered(w) == th[w].pc = "done" /\ th[w].calls > 0
\* The models that evaluate, in registry order.
FitModels == SelectSeq([i \in 1..Len(_models) |-> _models[i]], LAMBDA m : m.fit)
\* Every loaded model raises when evaluated.
AllRaise == \A i \in 1..Len(_models) : ~_models[i].fit

\* C1: with zero loaded classifiers every predict_image call, at any point of
\* any sequence of calls, fails with the no-models error; no classifier is
\* evaluated, no vector is collected and no (label, confidence) is answered.
C1_NoModelsAvailable ==
    \A w \in Workers :
        (Answered(w) /\ _models = <<>>) =>
            /\ th[w].result.exc = NoModelsError
            /\ th[w].result.attempted = <<>>
            /\ th[w].result.preds = <<>>
            /\ ~th[w].result.loaded
            /\ th[w].response.status = 500
            /\ th[w].response.label = ""

\* C1 witness: a call on a stored image that decodes, with an empty registry.
C1_Witness ==
    \E w \in Workers :
        /\ Answered(w) /\ _models = <<>>
        /\ Decodable(ReadFile(uploads, th[w].save_path))
        /\ th[w].result.exc = NoModelsError

\* C2: the failure for an empty registry and the failure for a registry whose
\* models all raise are told apart by the caller: at predict_image by the
\* exception, and after the handler by the answer, each of which occurs for
\* its own condition only.
C2_FailuresDistinct ==
    \A w \in Workers :
        Answered(w) =>
            LET none == _models = <<>>
                allFailed == _models # <<>> /\ th[w].result.loaded /\ AllRaise
            IN  /\ none <=> th[w].result.exc = NoModelsError
                /\ allFailed <=> th[w].result.exc = NoPredictionsError
                /\ none <=> th[w].response.error =
                                <<"Prediction error: ", NoModelsError.msg>>
                /\ allFailed <=> th[w].response.error =
                                <<"Prediction error: ", NoPredictionsError.msg>>

\* C2 witness: a call in which every loaded model raised.
C2_Witness ==
    \E w \in Workers :
        /\ Answered(w) /\ Len(_models) = 2 /\ AllRaise
        /\ th[w].result.attempted = <<EFF_MODEL, RES_MODEL>>
        /\ th[w].response.status = 500
        /\ th[w].response.error = <<"Prediction error: ", NoPredictionsError.msg>>

\* C3: in a call with a non-empty registry (whose image loaded), every model
\* is evaluated once in registry order, a model that raises is left out, the
\* call fails with the no-predictions error iff all raised, and otherwise it
\* returns the arg-max and value of the mean of exactly the surviving vectors.
C3_SoftFailLoop ==
    \A w \in Workers :
        (Answered(w) /\ _models # <<>> /\ th[w].result.loaded) =>
            /\ th[w].result.attempted = [i \in 1..Len(_models) |-> _models[i].path]
            /\ th[w].result.preds =
                   [i \in 1..Len(FitModels) |-> Softmax(FitModels[i].path, LoadImg(th[w].read))]
            /\ AllRaise <=> th[w].result.exc = NoPredictionsError
            /\ ~AllRaise =>
                  /\ th[w].result.exc = NoError
                  /\ th[w].response.status = 200
                  /\ th[w].result.idx = Ensemble(th[w].result.preds).idx
                  /\ th[w].response.confidence = Ensemble(th[w].result.preds).confidence

\* C5: label resolution never fails: a call that collected a vector returns
\* the name mapped to the predicted index when the label index has one, and
\* the index as a string otherwise.
C5_LabelNeverFails ==
    \A w \in Workers :
        (Answered(w) /\ th[w].result.preds # <<>>) =>
            LET idx == Ensemble(th[w].result.preds).idx
                named == IF CLASS_MAP.t = "dict"
                         THEN {i \in 1..Len(CLASS_MAP.v) :
                                 /\ CLASS_MAP.v[i][2].t = "int"
                                 /\ CLASS_MAP.v[i][2].v = idx}
                         ELSE {}
            IN  /\ th[w].result.exc = NoError
                /\ th[w].response.status = 200
                /\ named # {} => \E i \in named : th[w].response.label = CLASS_MAP.v[i][1]
                /\ named = {} => th[w].response.label = Str(idx)

\* C6: when the background removal and the contour crop both fail, the stored
\* image is the one the handler saved before the call.
C6_BothFailUnchanged ==
    \A w \in Workers :
        (th[w].pc \in {"predict", "done"} /\ th[w].pre = "false") =>
            ReadFile(uploads, th[w].save_path) = Raw(th[w].img)

\* C7: after any outcome of the preprocessing the handler calls predict_image
\* once, and a preprocessing failure alone (the image as received is one the
\* predictor answers) never yields an error answer.
C7_PreprocessNeverBlocks ==
    \A w \in Workers :
        (th[w].pc = "done" /\ th[w].save_path # <<>>) =>
            /\ th[w].calls = 1
            /\ (th[w].pre = "false"
                  /\ PredictImage(_models, CLASS_MAP, Raw(th[w].img)).exc = NoError)
               => th[w].response.status = 200

\* C8: whatever the interleaving, the image a handler predicts on comes from
\* the image that handler itself received.
C8_OwnImage ==
    \A w \in Workers :
        (Answered(w) /\ th[w].result.loaded) => th[w].read.src = th[w].img

C10_RegistryInit ==
    LET loadable == {p \in {EFF_MODEL, RES_MODEL} : artifacts[p] \in {"ok", "illfit"}}
    IN  /\ up
        /\ Len(_models) = Cardinality(loadable)
        /\ \A p \in {EFF_MODEL, RES_MODEL} :
              p \in loadable <=> \E i \in 1..Len(_models) : _models[i].path = p
        /\ Len(_models) = 2 => _models[1].path = EFF_MODEL /\ _models[2].path = RES_MODEL

\* C10 witness: the first artifact fails to load and the second is loaded.
C10_Witness ==
    /\ artifacts[EFF_MODEL] = "corrupt" /\ artifacts[RES_MODEL] = "ok"
    /\ up /\ Len(_models) = 1 /\ _models[1].path = RES_MODEL

\* C4: for one to Len(Candidates) probability vectors, the index returned is
\* the lowest index at which the unweighted element-wise mean is largest, and
\* the confidence is the mean there, within [0,1] and not re-normalized;
\* [0.9, 0.1] and [0.3, 0.7] give index 0 with confidence 0.6.
C4_ArgMaxOfMean ==
    ensemble.done =>
        LET n == Len(preds)
            total(k) == preds[1][k] + (IF n > 1 THEN preds[2][k] ELSE 0)
            at == ensemble.idx + 1
        IN  /\ n \in 1..Len(Candidates)
            /\ at \in 1..NumClasses
            /\ \A k \in 1..NumClasses : total(k) <= total(at)
            /\ \A k \in 1..(at - 1) : total(k) < total(at)
            /\ ensemble.confidence = <<total(at), n * Scale>>
            /\ 0 <= ensemble.confidence[1]
            /\ ensemble.confidence[1] <= ensemble.confidence[2]
            /\ preds = <<<<9, 1>>, <<3, 7>>>> =>
                  /\ ensemble.idx = 0
                  /\ ensemble.confidence[1] * 10 = 6 * ensemble.confidence[2]

\* C4 witness: the vectors [0.9, 0.1] and [0.3, 0.7] have been combined.
C4_Witness ==
    /\ ensemble.done
    /\ preds = <<<<9, 1>>, <<3, 7>>>>
    /\ ensemble.idx = 0

====
